---- MODULE Spec2Model ----
(***************************************************************************)
(* A model of netplan_generator.py: the NetplanGenerator document builder, *)
(* its YAML rendering, the command-line helpers parse_list and             *)
(* parse_overrides, and main().                                            *)
(*                                                                         *)
(* Representation of Python values:                                        *)
(*   str            a sequence of one-character strings                    *)
(*   list           a sequence                                             *)
(*   dict           a sequence of <<key, value>> pairs in insertion order  *)
(*   Optional[T]    None == <<>>, a present value v is Some(v) == <<v>>    *)
(*   bool, int      TLA+ booleans and integers                             *)
(* The keys of the netplan schema ("dhcp4", "ethernets", ...) are TLA+     *)
(* strings; every string that comes from the caller is a str as above.     *)
(***************************************************************************)
EXTENDS Integers, Sequences, FiniteSets, TLC

VARIABLES
    config,     \* NetplanGenerator.config of the generator in use
    prev,       \* config as it was before the most recent call
    lastOp,     \* the most recent call and its arguments
    ret,        \* what the most recent call returned (or raised)
    nOps,       \* number of add_* calls made on the generator
    pc,         \* main(): the statement it is at ("lib": no main() running)
    argv,       \* main(): the command line, option -> None or Some(value)
    args,       \* main(): the namespace parse_args returned
    yaml_output,\* main(): the local variable yaml_output
    stdout,     \* main(): what was printed to standard output, in order
    stderr,     \* main(): what was printed to standard error, in order
    status,     \* main(): the exit status, None while running
    file,       \* main(): the content of the --output file, None if not written
    input       \* the string handed to parse_list / parse_overrides

libVars == <<config, prev, lastOp, ret, nOps>>
cliVars == <<pc, argv, args, yaml_output, stdout, stderr, status, file>>
vars == <<config, prev, lastOp, ret, nOps, pc, argv, args, yaml_output,
          stdout, stderr, status, file, input>>

---------------------------------------------------------------------------
(* Bounds of the model *)

\* add_* calls made on one generator
MaxOps == 2

---------------------------------------------------------------------------
(* Python values *)

None == <<>>
Some(v) == <<v>>

\* `if x:` for x an Optional str, list or dict: not None and not empty
Truthy(x) == x # None /\ Len(x[1]) > 0

\* d[k] = v on a dict: replaces the value in place, or appends the key
DictSet(d, k, v) ==
    IF \E i \in 1..Len(d) : d[i][1] = k
    THEN [i \in 1..Len(d) |-> IF d[i][1] = k THEN <<k, v>> ELSE d[i]]
    ELSE Append(d, <<k, v>>)

\* k in d
DictHas(d, k) == \E i \in 1..Len(d) : d[i][1] = k

\* d[k]
DictGet(d, k) == d[CHOOSE i \in 1..Len(d) : d[i][1] = k][2]

\* list(d.keys())
DictKeys(d) == [i \in 1..Len(d) |-> d[i][1]]

\* a keyword argument that was left out (<<>>) takes its default
Arg(given, default) == IF given = <<>> THEN default ELSE given[1]

---------------------------------------------------------------------------
(* Strings used as inputs *)

eth0 == <<"e", "t", "h", "0">>
eth1 == <<"e", "t", "h", "1">>
bond0 == <<"b", "o", "n", "d", "0">>
br0 == <<"b", "r", "0">>
networkd == <<"n", "e", "t", "w", "o", "r", "k", "d">>
NetworkManager ==
    <<"N", "e", "t", "w", "o", "r", "k", "M", "a", "n", "a", "g", "e", "r">>
active_backup ==
    <<"a", "c", "t", "i", "v", "e", "-", "b", "a", "c", "k", "u", "p">>
mode_8023ad == <<"8", "0", "2", ".", "3", "a", "d">>
addr1 == <<"1", "0", ".", "0", ".", "1", ".", "1", "0", "0", "/", "2", "4">>
gw1 == <<"1", "0", ".", "0", ".", "1", ".", "1">>
ns1 == <<"8", ".", "8", ".", "8", ".", "8">>

---------------------------------------------------------------------------
(* NetplanGenerator *)

\* NetplanGenerator.__init__
NewGenerator(renderer) ==
    << <<"network", << <<"version", 2>>, <<"renderer", renderer>> >> >> >>

\* self.config["network"]
Network(cfg) == DictGet(cfg, "network")

\* self.config["network"][section], {} when the section was never created
Section(cfg, section) ==
    IF DictHas(Network(cfg), section) THEN DictGet(Network(cfg), section)
    ELSE <<>>

\* SetInterface putting the record into an emptied section
SetInterface_clearing(cfg, section, name, interface_config) ==
    DictSet(cfg, "network",
            DictSet(Network(cfg), section, << <<name, interface_config>> >>))

RECURSIVE DictUpdate(_, _)
\* d.update(e)
DictUpdate(d, e) ==
    IF e = <<>> THEN d
    ELSE DictUpdate(DictSet(d, e[1][1], e[1][2]), Tail(e))

\* SetInterface updating the record the name already has instead of replacing it
SetInterface_merging(cfg, section, name, interface_config) ==
    LET net0 == Network(cfg)
        net1 == IF DictHas(net0, section) THEN net0
                ELSE DictSet(net0, section, <<>>)
        old  == IF DictHas(DictGet(net1, section), name)
                THEN DictGet(DictGet(net1, section), name) ELSE <<>>
        tbl  == DictSet(DictGet(net1, section), name,
                        DictUpdate(old, interface_config))
    IN  DictSet(cfg, "network", DictSet(net1, section, tbl))

\* if section not in self.config["network"]: self.config["network"][section] = {}
\* ... self.config["network"][section][name] = interface_config
SetInterface(cfg, section, name, interface_config) ==
    LET net0 == Network(cfg)
        net1 == IF DictHas(net0, section) THEN net0
                ELSE DictSet(net0, section, <<>>)
        tbl  == DictSet(DictGet(net1, section), name, interface_config)
    IN  DictSet(cfg, "network", DictSet(net1, section, tbl))

\* EthernetDefaults with dhcp4 off unless asked for
EthernetDefaults_dhcp4_off ==
    [dhcp4 |-> FALSE, dhcp6 |-> FALSE, addresses |-> None, gateway4 |-> None,
     gateway6 |-> None, nameservers |-> None, dhcp4_overrides |-> None,
     dhcp6_overrides |-> None]

\* the defaults of add_ethernet's keyword parameters
EthernetDefaults ==
    [dhcp4 |-> TRUE, dhcp6 |-> FALSE, addresses |-> None, gateway4 |-> None,
     gateway6 |-> None, nameservers |-> None, dhcp4_overrides |-> None,
     dhcp6_overrides |-> None]

\* BondDefaults with the kernel's default mode, balance-rr
BondDefaults_balance_rr ==
    [mode |-> <<"b", "a", "l", "a", "n", "c", "e", "-", "r", "r">>,
     dhcp4 |-> TRUE, dhcp6 |-> FALSE,
     addresses |-> None, gateway4 |-> None, gateway6 |-> None,
     nameservers |-> None]

\* the defaults of add_bond's keyword parameters
BondDefaults ==
    [mode |-> active_backup, dhcp4 |-> TRUE, dhcp6 |-> FALSE,
     addresses |-> None, gateway4 |-> None, gateway6 |-> None,
     nameservers |-> None]

\* the defaults of add_bridge's keyword parameters
BridgeDefaults ==
    [dhcp4 |-> TRUE, dhcp6 |-> FALSE, addresses |-> None, gateway4 |-> None,
     gateway6 |-> None, nameservers |-> None]

\* the keyword arguments of a call bound to the parameters: a parameter the
\* call leaves out (<<>>) takes its default
Bind(defaults, kw) ==
    [p \in DOMAIN defaults |->
        IF p \in DOMAIN kw THEN Arg(kw[p], defaults[p]) ELSE defaults[p]]

\* the keyword arguments the function does not declare (a TypeError in Python)
Undeclared(defaults, kw) ==
    {p \in DOMAIN kw : kw[p] # <<>> /\ p \notin DOMAIN defaults}

\* CommonFields writing dhcp6 whatever its value (interface_config["dhcp6"] = dhcp6)
CommonFields_dhcp6_always(c0, a) ==
    LET c1 == IF a.dhcp4 THEN DictSet(c0, "dhcp4", TRUE) ELSE c0
        c2 == DictSet(c1, "dhcp6", a.dhcp6)
        c3 == IF Truthy(a.addresses)
              THEN DictSet(c2, "addresses", a.addresses[1]) ELSE c2
        c4 == IF Truthy(a.gateway4)
              THEN DictSet(c3, "gateway4", a.gateway4[1]) ELSE c3
        c5 == IF Truthy(a.gateway6)
              THEN DictSet(c4, "gateway6", a.gateway6[1]) ELSE c4
        c6 == IF Truthy(a.nameservers)
              THEN DictSet(c5, "nameservers",
                           << <<"addresses", a.nameservers[1]>> >>)
              ELSE c5
    IN  c6

\* the part of the three add_* bodies that is the same: dhcp4, dhcp6,
\* addresses, gateway4, gateway6, nameservers written onto interface_config c0
CommonFields(c0, a) ==
    LET c1 == IF a.dhcp4 THEN DictSet(c0, "dhcp4", TRUE) ELSE c0
        c2 == IF a.dhcp6 THEN DictSet(c1, "dhcp6", TRUE) ELSE c1
        c3 == IF Truthy(a.addresses)
              THEN DictSet(c2, "addresses", a.addresses[1]) ELSE c2
        c4 == IF Truthy(a.gateway4)
              THEN DictSet(c3, "gateway4", a.gateway4[1]) ELSE c3
        c5 == IF Truthy(a.gateway6)
              THEN DictSet(c4, "gateway6", a.gateway6[1]) ELSE c4
        c6 == IF Truthy(a.nameservers)
              THEN DictSet(c5, "nameservers",
                           << <<"addresses", a.nameservers[1]>> >>)
              ELSE c5
    IN  c6

\* EthernetRecord writing the overrides before the other fields
EthernetRecord_overrides_first(a) ==
    LET c1 == IF Truthy(a.dhcp4_overrides)
              THEN << <<"dhcp4-overrides", a.dhcp4_overrides[1]>> >> ELSE <<>>
        c2 == IF Truthy(a.dhcp6_overrides)
              THEN DictSet(c1, "dhcp6-overrides", a.dhcp6_overrides[1]) ELSE c1
    IN  CommonFields(c2, a)

\* interface_config as add_ethernet builds it
EthernetRecord(a) ==
    LET c6 == CommonFields(<<>>, a)
        c7 == IF Truthy(a.dhcp4_overrides)
              THEN DictSet(c6, "dhcp4-overrides", a.dhcp4_overrides[1]) ELSE c6
        c8 == IF Truthy(a.dhcp6_overrides)
              THEN DictSet(c7, "dhcp6-overrides", a.dhcp6_overrides[1]) ELSE c7
    IN  c8

\* interface_config as add_bond builds it
BondRecord(interfaces, a) ==
    CommonFields(<< <<"interfaces", interfaces>>,
                    <<"parameters", << <<"mode", a.mode>> >> >> >>, a)

\* interface_config as add_bridge builds it
BridgeRecord(interfaces, a) ==
    CommonFields(<< <<"interfaces", interfaces>> >>, a)

\* NetplanGenerator.add_ethernet: the document after the call
add_ethernet(cfg, name, kw) ==
    SetInterface(cfg, "ethernets", name,
                 EthernetRecord(Bind(EthernetDefaults, kw)))

RECURSIVE DeclareMembers(_, _)
\* cfg with ethernets[m] = {dhcp4: False} written for every member m
DeclareMembers(cfg, interfaces) ==
    IF interfaces = <<>> THEN cfg
    ELSE DeclareMembers(
             SetInterface(cfg, "ethernets", Head(interfaces),
                          << <<"dhcp4", FALSE>> >>),
             Tail(interfaces))

\* add_bond declaring its members without looking whether they are declared
add_bond_declaring_members(cfg, name, interfaces, kw) ==
    SetInterface(DeclareMembers(cfg, interfaces), "bonds", name,
                 BondRecord(interfaces, Bind(BondDefaults, kw)))

\* NetplanGenerator.add_bond: the document after the call
add_bond(cfg, name, interfaces, kw) ==
    SetInterface(cfg, "bonds", name,
                 BondRecord(interfaces, Bind(BondDefaults, kw)))

\* NetplanGenerator.add_bridge: the document after the call
add_bridge(cfg, name, interfaces, kw) ==
    SetInterface(cfg, "bridges", name,
                 BridgeRecord(interfaces, Bind(BridgeDefaults, kw)))

---------------------------------------------------------------------------
(* to_yaml: yaml.dump(self.config, default_flow_style=False,               *)
(* sort_keys=False).  The text is a sequence of lines; a line is           *)
(* <<indent, kind, key, value>>:                                           *)
(*   kind "key"   `key: value` for a key of the schema (a TLA+ string)     *)
(*   kind "name"  `key: value` for a key that is a str of the caller       *)
(*   kind "item"  `- value`, key is "-"                                    *)
(* value is None when the key opens a nested block, else Some(text).       *)

RECURSIVE Concat(_)
\* the lines of the parts, one part after the other
Concat(parts) ==
    IF parts = <<>> THEN <<>> ELSE Head(parts) \o Concat(Tail(parts))

Digits == <<"0", "1", "2", "3", "4", "5", "6", "7", "8", "9">>

RECURSIVE IntText(_)
\* an int as yaml.dump writes it: its decimal digits
IntText(n) ==
    IF n < 10 THEN <<Digits[n + 1]>>
    ELSE IntText(n \div 10) \o <<Digits[(n % 10) + 1]>>

\* a bool as yaml.dump writes it
BoolText(b) == IF b THEN <<"t", "r", "u", "e">> ELSE <<"f", "a", "l", "s", "e">>

IsDigit(c) == \E i \in 1..10 : Digits[i] = c

\* a str as yaml.dump writes it: plain, or in single quotes when the plain
\* text would be read back as something other than that str
StrText(s) ==
    IF \/ s = <<>>
       \/ \A i \in 1..Len(s) : IsDigit(s[i])
       \/ s \in {<<"t", "r", "u", "e">>, <<"f", "a", "l", "s", "e">>,
                 <<"T", "r", "u", "e">>, <<"F", "a", "l", "s", "e">>,
                 <<"T", "R", "U", "E">>, <<"F", "A", "L", "S", "E">>}
    THEN <<"'">> \o s \o <<"'">>
    ELSE s

\* a value of an overrides dict, <<type, value>>, as yaml.dump writes it
ScalarText(v) ==
    IF v[1] = "bool" THEN BoolText(v[2])
    ELSE IF v[1] = "int" THEN IntText(v[2])
    ELSE StrText(v[2])

\* a list of str under key k
RenderList(indent, k, list) ==
    IF list = <<>> THEN << <<indent, "key", k, Some(<<"[", "]">>)>> >>
    ELSE << <<indent, "key", k, None>> >>
         \o [i \in 1..Len(list) |-> <<indent, "item", "-", Some(StrText(list[i]))>>]

\* a dhcp4-overrides / dhcp6-overrides dict under key k
RenderOverrides(indent, k, d) ==
    << <<indent, "key", k, None>> >>
    \o [i \in 1..Len(d) |-> <<indent + 2, "name", d[i][1], Some(ScalarText(d[i][2]))>>]

\* one field of an interface record
RenderField(indent, k, v) ==
    IF k \in {"dhcp4", "dhcp6"} THEN << <<indent, "key", k, Some(BoolText(v))>> >>
    ELSE IF k \in {"addresses", "interfaces"} THEN RenderList(indent, k, v)
    ELSE IF k \in {"gateway4", "gateway6"}
    THEN << <<indent, "key", k, Some(StrText(v))>> >>
    ELSE IF k = "nameservers"
    THEN << <<indent, "key", k, None>> >>
         \o RenderList(indent + 2, "addresses", DictGet(v, "addresses"))
    ELSE IF k = "parameters"
    THEN << <<indent, "key", k, None>>,
            <<indent + 2, "key", "mode", Some(StrText(DictGet(v, "mode")))>> >>
    ELSE RenderOverrides(indent, k, v)

\* an interface record under its name
RenderInterface(indent, name, rec) ==
    IF rec = <<>> THEN << <<indent, "name", name, Some(<<"{", "}">>)>> >>
    ELSE << <<indent, "name", name, None>> >>
         \o Concat([i \in 1..Len(rec) |->
                        RenderField(indent + 2, rec[i][1], rec[i][2])])

\* one key of the "network" mapping
RenderNetworkKey(indent, k, v) ==
    IF k = "version" THEN << <<indent, "key", k, Some(IntText(v))>> >>
    ELSE IF k = "renderer" THEN << <<indent, "key", k, Some(StrText(v))>> >>
    ELSE << <<indent, "key", k, None>> >>
         \o Concat([i \in 1..Len(v) |->
                        RenderInterface(indent + 2, v[i][1], v[i][2])])

\* NetplanGenerator.to_yaml
to_yaml(cfg) ==
    LET net == Network(cfg)
    IN  << <<0, "key", "network", None>> >>
        \o Concat([i \in 1..Len(net) |->
                       RenderNetworkKey(2, net[i][1], net[i][2])])

\* `key: text` in yaml_output, for a key of the schema
HasLine(text, k, t) ==
    \E i \in 1..Len(text) :
        text[i][2] = "key" /\ text[i][3] = k /\ text[i][4] = Some(t)

\* `key:` in yaml_output, for a key of the schema
HasKey(text, k) ==
    \E i \in 1..Len(text) : text[i][2] = "key" /\ text[i][3] = k

\* `name:` in yaml_output, for an interface name
HasName(text, n) ==
    \E i \in 1..Len(text) : text[i][2] = "name" /\ text[i][3] = n

\* the keys of the schema written at one indentation of yaml_output, top down
KeysAt(text, indent) ==
    LET AtIndent(l) == l[1] = indent /\ l[2] = "key"
        ls == SelectSeq(text, AtIndent)
    IN  [i \in 1..Len(ls) |-> ls[i][3]]

\* keys are keys of order, each once, one after the other as order has them
InOrder(keys, order) ==
    LET Index(k) == CHOOSE i \in 1..Len(order) : order[i] = k
    IN  /\ \A i \in 1..Len(keys) : \E j \in 1..Len(order) : order[j] = keys[i]
        /\ \A i, j \in 1..Len(keys) : i < j => Index(keys[i]) < Index(keys[j])

---------------------------------------------------------------------------
(* str methods used by parse_list and parse_overrides *)

\* characters str.strip() removes
Whitespace == {" ", "\t", "\n", "\r"}

UpperCase == <<"A", "B", "C", "D", "E", "F", "G", "H", "I", "J", "K", "L", "M",
               "N", "O", "P", "Q", "R", "S", "T", "U", "V", "W", "X", "Y", "Z">>
LowerCase == <<"a", "b", "c", "d", "e", "f", "g", "h", "i", "j", "k", "l", "m",
               "n", "o", "p", "q", "r", "s", "t", "u", "v", "w", "x", "y", "z">>

\* c in s, for a one-character c
Contains(s, c) == \E i \in 1..Len(s) : s[i] = c

\* s.find(c) + 1: the first position of c in s
Find(s, c) == CHOOSE i \in 1..Len(s) : s[i] = c /\ \A j \in 1..(i - 1) : s[j] # c

RECURSIVE Split(_, _)
\* s.split(sep)
Split(s, sep) ==
    IF ~Contains(s, sep) THEN <<s>>
    ELSE <<SubSeq(s, 1, Find(s, sep) - 1)>>
         \o Split(SubSeq(s, Find(s, sep) + 1, Len(s)), sep)

\* s.split(sep, 1), for an s that holds sep
SplitOnce(s, sep) ==
    <<SubSeq(s, 1, Find(s, sep) - 1), SubSeq(s, Find(s, sep) + 1, Len(s))>>

\* s.strip()
Strip(s) ==
    LET kept == {i \in 1..Len(s) : s[i] \notin Whitespace}
    IN  IF kept = {} THEN <<>>
        ELSE SubSeq(s, CHOOSE i \in kept : \A j \in kept : i <= j,
                       CHOOSE i \in kept : \A j \in kept : i >= j)

\* s.lower()
Lower(s) ==
    [i \in 1..Len(s) |->
        IF \E k \in 1..26 : UpperCase[k] = s[i]
        THEN LowerCase[CHOOSE k \in 1..26 : UpperCase[k] = s[i]]
        ELSE s[i]]

\* s.isdigit()
IsDigitStr(s) == s # <<>> /\ \A i \in 1..Len(s) : IsDigit(s[i])

RECURSIVE ParseInt(_)
\* int(s), for an s of decimal digits
ParseInt(s) ==
    IF s = <<>> THEN 0
    ELSE 10 * ParseInt(SubSeq(s, 1, Len(s) - 1))
         + ((CHOOSE i \in 1..10 : Digits[i] = s[Len(s)]) - 1)

---------------------------------------------------------------------------
(* parse_list and parse_overrides *)

\* parse_list(value)
parse_list(value) ==
    IF value = <<>> THEN <<>>
    ELSE [i \in 1..Len(Split(value, ",")) |-> Strip(Split(value, ",")[i])]

\* ConvertValue comparing val itself with "true"/"false", val.lower() left out
ConvertValue_case_sensitive(val) ==
    IF val \in {<<"t", "r", "u", "e">>, <<"f", "a", "l", "s", "e">>}
    THEN <<"bool", val = <<"t", "r", "u", "e">> >>
    ELSE IF IsDigitStr(val) THEN <<"int", ParseInt(val)>>
    ELSE <<"str", val>>

\* the value of one pair as parse_overrides converts it; a Python value is
\* <<type, value>>
ConvertValue(val) ==
    IF Lower(val) \in {<<"t", "r", "u", "e">>, <<"f", "a", "l", "s", "e">>}
    THEN <<"bool", Lower(val) = <<"t", "r", "u", "e">> >>
    ELSE IF IsDigitStr(val) THEN <<"int", ParseInt(val)>>
    ELSE <<"str", val>>

RECURSIVE ParsePairs(_, _)
\* the loop of parse_overrides over the pairs left, overrides built so far
ParsePairs(pairs, overrides) ==
    IF pairs = <<>> THEN overrides
    ELSE LET pair == Head(pairs)
         IN  IF Contains(pair, "=")
             THEN ParsePairs(Tail(pairs),
                      DictSet(overrides, Strip(SplitOnce(pair, "=")[1]),
                              ConvertValue(Strip(SplitOnce(pair, "=")[2]))))
             ELSE ParsePairs(Tail(pairs), overrides)

\* parse_overrides(value)
parse_overrides(value) ==
    IF value = <<>> THEN <<>> ELSE ParsePairs(Split(value, ","), <<>>)

---------------------------------------------------------------------------
(* The library: calls made on one NetplanGenerator *)

\* what a call returns: None, a str, or an exception raised
RetNone == <<"None", <<>>>>
RetStr(text) == <<"str", text>>
Raised(exc) == <<"raise", exc>>

use_dns_false == << << <<"u", "s", "e", "-", "d", "n", "s">>, <<"bool", FALSE>> >> >>

EthernetNames == {eth0, eth1}
BondNames == {bond0}
BridgeNames == {br0}
MemberLists == {<<eth0>>, <<eth0, eth1>>, <<eth1, eth0>>}

\* keyword arguments of the add_ethernet calls: <<>> leaves the argument out
EthernetKw ==
    [dhcp4 : {<<>>, <<TRUE>>, <<FALSE>>},
     dhcp6 : {<<>>, <<TRUE>>},
     addresses : {<<>>, <<Some(<<>>)>>, <<Some(<<addr1>>)>>}]

\* keyword arguments of the add_bond calls
BondKw ==
    [mode : {<<>>, <<mode_8023ad>>},
     dhcp4 : {<<>>, <<FALSE>>},
     addresses : {<<>>, <<Some(<<addr1>>)>>},
     dhcp4_overrides : {<<>>, <<Some(use_dns_false)>>}]

\* keyword arguments of the add_bridge calls
BridgeKw ==
    [dhcp4 : {<<>>, <<FALSE>>},
     addresses : {<<>>, <<Some(<<addr1>>)>>},
     dhcp4_overrides : {<<>>, <<Some(use_dns_false)>>}]

Call(op, name, interfaces, kw) ==
    [op |-> op, name |-> name, interfaces |-> interfaces, kw |-> kw]

Init ==
    \E r \in {<<>>, <<NetworkManager>>} :
        /\ config = NewGenerator(Arg(r, networkd))
        /\ prev = config
        /\ lastOp = Call("__init__", <<>>, <<>>, [renderer |-> r])
        /\ ret = RetNone
        /\ nOps = 0
        /\ pc = "lib"
        /\ argv = <<>>
        /\ args = <<>>
        /\ yaml_output = None
        /\ stdout = <<>>
        /\ stderr = <<>>
        /\ status = None
        /\ file = None
        /\ input = None

\* generator.add_ethernet(name, **kw)
AddEthernet ==
    /\ pc = "lib"
    /\ nOps < MaxOps
    /\ \E name \in EthernetNames, kw \in EthernetKw :
        /\ config' = add_ethernet(config, name, kw)
        /\ lastOp' = Call("add_ethernet", name, <<>>, kw)
    /\ prev' = config
    /\ ret' = RetNone
    /\ nOps' = nOps + 1
    /\ UNCHANGED <<cliVars, input>>

\* generator.add_bond(name, interfaces, **kw): a keyword the method does not
\* declare raises TypeError before the body runs
AddBond ==
    /\ pc = "lib"
    /\ nOps < MaxOps
    /\ \E name \in BondNames, interfaces \in MemberLists, kw \in BondKw :
        /\ lastOp' = Call("add_bond", name, interfaces, kw)
        /\ IF Undeclared(BondDefaults, kw) # {}
           THEN config' = config /\ ret' = Raised("TypeError")
           ELSE config' = add_bond(config, name, interfaces, kw) /\ ret' = RetNone
    /\ prev' = config
    /\ nOps' = nOps + 1
    /\ UNCHANGED <<cliVars, input>>

\* generator.add_bridge(name, interfaces, **kw)
AddBridge ==
    /\ pc = "lib"
    /\ nOps < MaxOps
    /\ \E name \in BridgeNames, interfaces \in MemberLists, kw \in BridgeKw :
        /\ lastOp' = Call("add_bridge", name, interfaces, kw)
        /\ IF Undeclared(BridgeDefaults, kw) # {}
           THEN config' = config /\ ret' = Raised("TypeError")
           ELSE config' = add_bridge(config, name, interfaces, kw) /\ ret' = RetNone
    /\ prev' = config
    /\ nOps' = nOps + 1
    /\ UNCHANGED <<cliVars, input>>

\* to_yaml made to create the ethernets section before dumping
ToYaml_creating_sections ==
    /\ pc = "lib"
    /\ lastOp' = Call("to_yaml", <<>>, <<>>, [renderer |-> <<>>])
    /\ config' = DictSet(config, "network",
                         DictSet(Network(config), "ethernets",
                                 Section(config, "ethernets")))
    /\ ret' = RetStr(to_yaml(config'))
    /\ prev' = config
    /\ UNCHANGED <<nOps, cliVars, input>>

\* to_yaml made to close the generator: no call is possible after it
ToYaml_freezing ==
    /\ pc = "lib"
    /\ lastOp' = Call("to_yaml", <<>>, <<>>, [renderer |-> <<>>])
    /\ ret' = RetStr(to_yaml(config))
    /\ prev' = config
    /\ pc' = "rendered"
    /\ UNCHANGED <<config, nOps, argv, args, yaml_output, stdout, stderr,
                   status, file, input>>

\* generator.to_yaml()
ToYaml ==
    /\ pc = "lib"
    /\ lastOp' = Call("to_yaml", <<>>, <<>>, [renderer |-> <<>>])
    /\ ret' = RetStr(to_yaml(config))
    /\ prev' = config
    /\ UNCHANGED <<config, nOps, cliVars, input>>

\* the names netplan_generator.py binds at module level
ModuleNames ==
    {"argparse", "sys", "yaml", "Dict", "List", "Optional", "Any",
     "NetplanGenerator", "parse_list", "parse_overrides", "main"}

\* from netplan_generator import generate_networkmanager_config
\* yaml_output = generate_networkmanager_config()
\* as the tests do: the module binds no such name, the import raises
\* ImportError and the call is never made
CallGenerateNetworkmanagerConfig ==
    /\ pc = "lib"
    /\ "generate_networkmanager_config" \notin ModuleNames
    /\ lastOp' = Call("generate_networkmanager_config", <<>>, <<>>,
                      [renderer |-> <<>>])
    /\ ret' = Raised("ImportError")
    /\ prev' = config
    /\ UNCHANGED <<config, nOps, cliVars, input>>

Next ==
    \/ AddEthernet \/ AddBond \/ AddBridge \/ ToYaml
    \/ CallGenerateNetworkmanagerConfig

Spec == Init /\ [][Next]_vars

---------------------------------------------------------------------------
(* Properties of the library *)

AddOps == {"add_ethernet", "add_bond", "add_bridge"}

\* the most recent call was an add_* call that ran to its end
LastAdded(ops) == lastOp.op \in ops /\ ret = RetNone

\* the section the most recent add_* call writes to
LastSection ==
    IF lastOp.op = "add_ethernet" THEN "ethernets"
    ELSE IF lastOp.op = "add_bond" THEN "bonds" ELSE "bridges"

\* the parameters of the most recent add_* call, defaults filled in
LastArgs ==
    IF lastOp.op = "add_ethernet" THEN Bind(EthernetDefaults, lastOp.kw)
    ELSE IF lastOp.op = "add_bond" THEN Bind(BondDefaults, lastOp.kw)
    ELSE Bind(BridgeDefaults, lastOp.kw)

\* the record the document holds under the name of the most recent add_* call
LastRecord == DictGet(Section(config, LastSection), lastOp.name)

\* C1: after any sequence of add_ethernet / add_bond / add_bridge calls,
\* every interface name in the `interfaces` list of a bond or bridge record
\* has an entry in the ethernets table.
C1_MembersDeclared ==
    \A s \in {"bonds", "bridges"} :
        \A i \in 1..Len(Section(config, s)) :
            LET members == DictGet(Section(config, s)[i][2], "interfaces")
            IN  \A j \in 1..Len(members) :
                    DictHas(Section(config, "ethernets"), members[j])

\* C2: after add_bond / add_bridge, every member name that had no ethernets
\* entry before the call has one after it whose dhcp4 key is present with the
\* value false.
C2_AbsentMembersDeclaredStatic ==
    LastAdded({"add_bond", "add_bridge"}) =>
        \A j \in 1..Len(lastOp.interfaces) :
            LET m == lastOp.interfaces[j]
            IN  ~DictHas(Section(prev, "ethernets"), m) =>
                    /\ DictHas(Section(config, "ethernets"), m)
                    /\ DictHas(DictGet(Section(config, "ethernets"), m), "dhcp4")
                    /\ DictGet(DictGet(Section(config, "ethernets"), m), "dhcp4") = FALSE

\* C3: add_bond and add_bridge never overwrite an ethernet entry that already
\* exists: every name with an ethernets record before the call has the
\* identical record after it.
C3_ExistingEthernetKept ==
    LastAdded({"add_bond", "add_bridge"}) =>
        \A i \in 1..Len(Section(prev, "ethernets")) :
            LET name == Section(prev, "ethernets")[i][1]
            IN  /\ DictHas(Section(config, "ethernets"), name)
                /\ DictGet(Section(config, "ethernets"), name)
                       = Section(prev, "ethernets")[i][2]

\* a bond or bridge was added one of whose members already had an ethernets
\* record with settings other than {dhcp4: false}
C3_Witness ==
    /\ LastAdded({"add_bond", "add_bridge"})
    /\ \E j \in 1..Len(lastOp.interfaces) :
        /\ DictHas(Section(prev, "ethernets"), lastOp.interfaces[j])
        /\ DictGet(Section(prev, "ethernets"), lastOp.interfaces[j])
               # << <<"dhcp4", FALSE>> >>
        /\ DictHas(DictGet(Section(prev, "ethernets"), lastOp.interfaces[j]),
                   "addresses")

\* C4: add_ethernet, add_bond or add_bridge called with dhcp4=False and no
\* addresses writes a record that holds dhcp4 with the value false, and the
\* rendered text shows `dhcp4: false`.
C4_StaticWithoutAddressesExplicit ==
    (LastAdded(AddOps) /\ ~LastArgs.dhcp4 /\ ~Truthy(LastArgs.addresses)) =>
        /\ DictHas(LastRecord, "dhcp4")
        /\ DictGet(LastRecord, "dhcp4") = FALSE
        /\ HasLine(to_yaml(config), "dhcp4", BoolText(FALSE))

\* C5: in every ethernet, bond and bridge record dhcp6 is present only with
\* the value true and only when dhcp6 was true; dhcp4 is written as true
\* exactly when dhcp4 was true; with dhcp4 false and a non-empty addresses
\* list the record has `addresses` equal to that list and no dhcp4 key.
C5_DhcpKeysWritten ==
    /\ \A s \in {"ethernets", "bonds", "bridges"} :
        \A i \in 1..Len(Section(config, s)) :
            LET r == Section(config, s)[i][2]
            IN  DictHas(r, "dhcp6") => DictGet(r, "dhcp6") = TRUE
    /\ LastAdded(AddOps) =>
        /\ DictHas(LastRecord, "dhcp6") <=> LastArgs.dhcp6
        /\ (DictHas(LastRecord, "dhcp4") /\ DictGet(LastRecord, "dhcp4") = TRUE)
               <=> LastArgs.dhcp4
        /\ (~LastArgs.dhcp4 /\ Truthy(LastArgs.addresses)) =>
            /\ DictHas(LastRecord, "addresses")
            /\ DictGet(LastRecord, "addresses") = LastArgs.addresses[1]
            /\ ~DictHas(LastRecord, "dhcp4")

\* an interface was added with dhcp4 false, dhcp6 true and an address
C5_Witness ==
    /\ LastAdded(AddOps)
    /\ ~LastArgs.dhcp4 /\ LastArgs.dhcp6 /\ Truthy(LastArgs.addresses)
    /\ DictKeys(LastRecord) = <<"dhcp6", "addresses">>

\* C6: add_ethernet(name) with dhcp4 left at its default (or given as true)
\* and no addresses writes a record with dhcp4: true and no addresses key;
\* the addresses key of the record is present exactly when a non-empty
\* addresses list was supplied, and then holds that list.
C6_DefaultEthernet ==
    LastAdded({"add_ethernet"}) =>
        LET kw == lastOp.kw
            supplied == kw.addresses # <<>> /\ Truthy(kw.addresses[1])
        IN  /\ (kw.dhcp4 \in {<<>>, <<TRUE>>} /\ ~supplied) =>
                /\ DictHas(LastRecord, "dhcp4")
                /\ DictGet(LastRecord, "dhcp4") = TRUE
                /\ ~DictHas(LastRecord, "addresses")
            /\ DictHas(LastRecord, "addresses") <=> supplied
            /\ supplied => DictGet(LastRecord, "addresses") = kw.addresses[1][1]

\* add_ethernet(name) was called with no keyword argument at all
C6_Witness ==
    /\ LastAdded({"add_ethernet"})
    /\ lastOp.kw.dhcp4 = <<>> /\ lastOp.kw.dhcp6 = <<>> /\ lastOp.kw.addresses = <<>>
    /\ LastRecord = << <<"dhcp4", TRUE>> >>

\* C7: add_bond writes a record whose `interfaces` is the given member list
\* in the given order and whose parameters.mode is the given mode,
\* "active-backup" when no mode is given; add_bridge writes `interfaces` the
\* same way and its record has no `parameters` key.
C7_BondBridgeRecord ==
    /\ LastAdded({"add_bond"}) =>
        /\ DictGet(LastRecord, "interfaces") = lastOp.interfaces
        /\ DictGet(LastRecord, "parameters")
               = << <<"mode", IF lastOp.kw.mode = <<>> THEN active_backup
                              ELSE lastOp.kw.mode[1]>> >>
    /\ LastAdded({"add_bridge"}) =>
        /\ DictGet(LastRecord, "interfaces") = lastOp.interfaces
        /\ ~DictHas(LastRecord, "parameters")

\* a bond was added with members eth1, eth0 in that order and no mode given
C7_Witness ==
    /\ LastAdded({"add_bond"})
    /\ lastOp.interfaces = <<eth1, eth0>>
    /\ lastOp.kw.mode = <<>>
    /\ DictHas(Section(config, "bonds"), bond0)

\* C9: generate_networkmanager_config() takes no input and returns, on every
\* call, the same text, which holds `network:`, `version: 2` and
\* `renderer: NetworkManager`; it reads and changes no NetplanGenerator
\* document.
C9_NetworkManagerConfigText ==
    lastOp.op = "generate_networkmanager_config" =>
        /\ ret[1] = "str"
        /\ HasKey(ret[2], "network")
        /\ HasLine(ret[2], "version", IntText(2))
        /\ HasLine(ret[2], "renderer", NetworkManager)
        /\ config = prev

SectionOrder == <<"version", "renderer", "ethernets", "bonds", "bridges">>

\* C16: the keys rendered under `network` are `version`, `renderer`, then
\* `ethernets`, `bonds`, `bridges` in that order, a section being there only
\* when it has an entry, whatever the order of the add_* calls was.
C16_TopLevelKeyOrder ==
    lastOp.op = "to_yaml" =>
        /\ InOrder(KeysAt(ret[2], 2), SectionOrder)
        /\ \A k \in {"ethernets", "bonds", "bridges"} :
               HasKey(ret[2], k) <=> Section(config, k) # <<>>

\* C17: a bond or bridge given non-empty dhcp4 overrides is written with
\* `dhcp4-overrides` in its record, as an ethernet given the same option is.
C17_BondBridgeOverrides ==
    (lastOp.op \in {"add_bond", "add_bridge"}
        /\ lastOp.kw.dhcp4_overrides # <<>>) =>
        /\ ret = RetNone
        /\ DictHas(LastRecord, "dhcp4-overrides")
        /\ Some(DictGet(LastRecord, "dhcp4-overrides")) = lastOp.kw.dhcp4_overrides[1]

\* the interface names the document holds, over all sections
DocumentNames(cfg) ==
    UNION {{Section(cfg, sec)[i][1] : i \in 1..Len(Section(cfg, sec))} :
               sec \in {"ethernets", "bonds", "bridges"}}

\* C19: a to_yaml() call does not close the builder: after it every add
\* operation can still be called, and the text it returns is the rendering of
\* the document as it is at the call, holding every record added so far.
C19_RenderDoesNotFreeze ==
    lastOp.op = "to_yaml" =>
        /\ nOps < MaxOps =>
               (ENABLED AddEthernet) /\ (ENABLED AddBond) /\ (ENABLED AddBridge)
        /\ \A n \in DocumentNames(config) : HasName(ret[2], n)
        /\ \A i \in 1..Len(ret[2]) :
               (ret[2][i][1] = 4 /\ ret[2][i][2] = "name")
                   => ret[2][i][3] \in DocumentNames(config)
        /\ ret[2] = to_yaml(config)

\* to_yaml() returned a text with the record added before it, and the add
\* operations can be called again
C19_Witness ==
    /\ lastOp.op = "to_yaml"
    /\ nOps = 1
    /\ DocumentNames(config) = {bond0}
    /\ HasName(ret[2], bond0)
    /\ ENABLED AddEthernet

\* C20: after add_ethernet(name, opts) the ethernets record of name is the
\* record built from opts alone, with no key left from a record the name had
\* before, and the same call made once more leaves the document as it is.
C20_AddEthernetLastWriteWins ==
    LastAdded({"add_ethernet"}) =>
        /\ LastRecord = EthernetRecord(LastArgs)
        /\ \A k \in {"dhcp4", "dhcp6", "addresses"} :
               DictHas(LastRecord, k) => DictHas(EthernetRecord(LastArgs), k)
        /\ add_ethernet(config, lastOp.name, lastOp.kw) = config

\* add_ethernet without addresses replaced a record of the same name that had
\* addresses
C20_Witness ==
    /\ LastAdded({"add_ethernet"})
    /\ DictHas(Section(prev, "ethernets"), lastOp.name)
    /\ DictHas(DictGet(Section(prev, "ethernets"), lastOp.name), "addresses")
    /\ ~DictHas(LastRecord, "addresses")
    /\ ~LastArgs.dhcp4

---------------------------------------------------------------------------
(* parse_list and parse_overrides applied to command-line strings *)

\* key=value pairs in one --dhcp4-overrides string
MaxPairs == 2

RECURSIVE Join(_, _)
\* sep.join(parts)
Join(parts, sep) ==
    IF parts = <<>> THEN <<>>
    ELSE IF Len(parts) = 1 THEN parts[1]
    ELSE parts[1] \o <<sep>> \o Join(Tail(parts), sep)

use_dns == <<"u", "s", "e", "-", "d", "n", "s">>
retries == <<"r", "e", "t", "r", "i", "e", "s">>
name_key == <<"n", "a", "m", "e">>
foo == <<"f", "o", "o">>

\* the values written after `=`, each with the Python value it stands for:
\* true/false in any letter case a bool, a run of decimal digits an int,
\* anything else (signed, fractional, empty, holding `=`) the str itself,
\* surrounding blanks dropped
ValueCases ==
    { [text |-> <<"t", "r", "u", "e">>, expect |-> <<"bool", TRUE>>],
      [text |-> <<"f", "a", "l", "s", "e">>, expect |-> <<"bool", FALSE>>],
      [text |-> <<"T", "R", "U", "E">>, expect |-> <<"bool", TRUE>>],
      [text |-> <<"F", "a", "l", "s", "e">>, expect |-> <<"bool", FALSE>>],
      [text |-> <<"3">>, expect |-> <<"int", 3>>],
      [text |-> <<"0", "4", "2">>, expect |-> <<"int", 42>>],
      [text |-> <<" ", "7", " ">>, expect |-> <<"int", 7>>],
      [text |-> foo, expect |-> <<"str", foo>>],
      [text |-> <<"-", "3">>, expect |-> <<"str", <<"-", "3">> >>],
      [text |-> <<"1", ".", "5">>, expect |-> <<"str", <<"1", ".", "5">> >>],
      [text |-> <<>>, expect |-> <<"str", <<>> >>],
      [text |-> <<"a", "=", "1">>, expect |-> <<"str", <<"a", "=", "1">> >>] }

\* the pieces between commas: key=value pairs, a key written with blanks
\* around it, and a piece without `=`
PairCases ==
    { [kind |-> "kv", text |-> k \o <<"=">> \o v.text, key |-> k, expect |-> v.expect] :
          k \in {use_dns, retries}, v \in ValueCases }
    \cup { [kind |-> "kv", text |-> <<" ">> \o name_key \o <<" ", "=", " ">> \o foo,
            key |-> name_key, expect |-> <<"str", foo>>],
           [kind |-> "junk", text |-> foo, key |-> <<>>, expect |-> <<"str", <<>> >>] }

\* "use-dns=false,retries=3,name=foo"
ExamplePairs ==
    << [kind |-> "kv", text |-> use_dns \o <<"=", "f", "a", "l", "s", "e">>,
        key |-> use_dns, expect |-> <<"bool", FALSE>>],
       [kind |-> "kv", text |-> retries \o <<"=", "3">>,
        key |-> retries, expect |-> <<"int", 3>>],
       [kind |-> "kv", text |-> name_key \o <<"=">> \o foo,
        key |-> name_key, expect |-> <<"str", foo>>] >>

\* a command-line string with the pieces it was written from
InputOf(pairs) ==
    [pairs |-> pairs,
     text |-> Join([i \in 1..Len(pairs) |-> pairs[i].text], ",")]

Inputs ==
    { InputOf(ps) : ps \in UNION { [1..n -> PairCases] : n \in 0..MaxPairs } }
    \cup { InputOf(ExamplePairs) }

InitParse ==
    /\ input \in { Some(i) : i \in Inputs }
    /\ config = NewGenerator(networkd)
    /\ prev = config
    /\ lastOp = Call("__init__", <<>>, <<>>, [renderer |-> <<>>])
    /\ ret = RetNone
    /\ nOps = 0
    /\ pc = "parse"
    /\ argv = <<>>
    /\ args = <<>>
    /\ yaml_output = None
    /\ stdout = <<>>
    /\ stderr = <<>>
    /\ status = None
    /\ file = None

\* parse_overrides(input)
ParseOverrides ==
    /\ pc = "parse"
    /\ lastOp' = Call("parse_overrides", <<>>, <<>>, [renderer |-> <<>>])
    /\ ret' = <<"dict", parse_overrides(input[1].text)>>
    /\ pc' = "parsed"
    /\ UNCHANGED <<config, prev, nOps, argv, args, yaml_output, stdout,
                   stderr, status, file, input>>

\* parse_list(input)
ParseList ==
    /\ pc = "parse"
    /\ lastOp' = Call("parse_list", <<>>, <<>>, [renderer |-> <<>>])
    /\ ret' = <<"list", parse_list(input[1].text)>>
    /\ pc' = "parsed"
    /\ UNCHANGED <<config, prev, nOps, argv, args, yaml_output, stdout,
                   stderr, status, file, input>>

NextParse == ParseOverrides \/ ParseList

SpecParse == InitParse /\ [][NextParse]_vars

---------------------------------------------------------------------------
(* main(): one run of the command line.  An option of the command line is  *)
(* named by its argparse dest (bond_interfaces for --bond-interfaces); its  *)
(* value is None when the option is absent, Some(str) when it is given (a   *)
(* store_true flag is given as Some("")).                                   *)

\* the options main() declares with parser.add_argument
DeclaredOptions ==
    {"output", "renderer", "ethernet", "bond", "bridge", "static", "addresses",
     "gateway4", "gateway6", "nameservers", "dhcp4_overrides",
     "dhcp6_overrides", "bond_interfaces", "bond_mode", "bridge_interfaces"}

\* choices=["networkd", "NetworkManager"]
RendererChoices == {networkd, NetworkManager}

\* the options of the command line that argparse does not know
Unrecognized(cmd) == {o \in DOMAIN cmd : cmd[o] # None /\ o \notin DeclaredOptions}

\* args = parser.parse_args(), for a command line argparse accepts
Namespace(cmd) ==
    [output |-> cmd.output,
     renderer |-> Arg(cmd.renderer, networkd),
     ethernet |-> cmd.ethernet,
     bond |-> cmd.bond,
     bridge |-> cmd.bridge,
     static |-> cmd.static # None,
     addresses |-> cmd.addresses,
     gateway4 |-> cmd.gateway4,
     gateway6 |-> cmd.gateway6,
     nameservers |-> cmd.nameservers,
     dhcp4_overrides |-> cmd.dhcp4_overrides,
     dhcp6_overrides |-> cmd.dhcp6_overrides,
     bond_interfaces |-> cmd.bond_interfaces,
     bond_mode |-> Arg(cmd.bond_mode, active_backup),
     bridge_interfaces |-> cmd.bridge_interfaces]

\* parse_list(x) if x else None
ListOrNone(x) == IF Truthy(x) THEN Some(parse_list(x[1])) ELSE None

\* parse_overrides(x) if x else None
OverridesOrNone(x) == IF Truthy(x) THEN Some(parse_overrides(x[1])) ELSE None

\* the keyword arguments main() passes to add_ethernet
EthernetCallKw(a) ==
    [dhcp4 |-> Some(~a.static),
     dhcp6 |-> Some(FALSE),
     addresses |-> Some(ListOrNone(a.addresses)),
     gateway4 |-> Some(a.gateway4),
     gateway6 |-> Some(a.gateway6),
     nameservers |-> Some(ListOrNone(a.nameservers)),
     dhcp4_overrides |-> Some(OverridesOrNone(a.dhcp4_overrides)),
     dhcp6_overrides |-> Some(OverridesOrNone(a.dhcp6_overrides))]

\* the keyword arguments main() passes to add_bond
BondCallKw(a) ==
    [mode |-> Some(a.bond_mode),
     dhcp4 |-> Some(~a.static),
     dhcp6 |-> Some(FALSE),
     addresses |-> Some(ListOrNone(a.addresses)),
     gateway4 |-> Some(a.gateway4),
     gateway6 |-> Some(a.gateway6),
     nameservers |-> Some(ListOrNone(a.nameservers))]

\* the keyword arguments main() passes to add_bridge
BridgeCallKw(a) ==
    [dhcp4 |-> Some(~a.static),
     dhcp6 |-> Some(FALSE),
     addresses |-> Some(ListOrNone(a.addresses)),
     gateway4 |-> Some(a.gateway4),
     gateway6 |-> Some(a.gateway6),
     nameservers |-> Some(ListOrNone(a.nameservers))]

out_yaml == <<"o", "u", "t", ".", "y", "a", "m", "l">>
eth0_eth1 == eth0 \o <<",">> \o eth1
use_dns_eq_false == use_dns \o <<"=", "f", "a", "l", "s", "e">>

\* the command lines run
CommandLines ==
    [use_nm : {None, Some(<<>>)},
     output : {None, Some(out_yaml)},
     renderer : {None, Some(NetworkManager)},
     ethernet : {None, Some(eth0)},
     bond : {None, Some(bond0)},
     bridge : {None, Some(br0)},
     static : {None, Some(<<>>)},
     addresses : {None, Some(addr1)},
     gateway4 : {None},
     gateway6 : {None},
     nameservers : {None},
     dhcp4_overrides : {None, Some(use_dns_eq_false)},
     dhcp6_overrides : {None},
     bond_interfaces : {None, Some(<<>>), Some(<<",">>), Some(eth0_eth1)},
     bond_mode : {None, Some(mode_8023ad)},
     bridge_interfaces : {None, Some(<<>>), Some(<<" ">>), Some(eth0)}]

InitCli ==
    /\ argv \in CommandLines
    /\ pc = "parse_args"
    /\ args = <<>>
    /\ config = <<>>
    /\ prev = <<>>
    /\ lastOp = Call("main", <<>>, <<>>, [renderer |-> <<>>])
    /\ ret = RetNone
    /\ nOps = 0
    /\ yaml_output = None
    /\ stdout = <<>>
    /\ stderr = <<>>
    /\ status = None
    /\ file = None
    /\ input = None

\* parser.error made to report the message and leave with status 0
ParserError_exit_zero(message) ==
    /\ stderr' = Append(stderr, <<"usage", message>>)
    /\ status' = Some(0)
    /\ pc' = "exit"

\* parser.error(message): the usage and the message on stderr, exit status 2
ParserError(message) ==
    /\ stderr' = Append(stderr, <<"usage", message>>)
    /\ status' = Some(2)
    /\ pc' = "exit"

\* args = parser.parse_args()
ParseArgs ==
    /\ pc = "parse_args"
    /\ IF Unrecognized(argv) # {}
       THEN ParserError("unrecognized arguments") /\ UNCHANGED args
       ELSE IF argv.renderer # None /\ argv.renderer[1] \notin RendererChoices
       THEN ParserError("invalid choice") /\ UNCHANGED args
       ELSE /\ args' = Namespace(argv)
            /\ pc' = "validate"
            /\ UNCHANGED <<stderr, status>>
    /\ UNCHANGED <<libVars, argv, yaml_output, stdout, file, input>>

\* if not any([args.ethernet, args.bond, args.bridge]): parser.error(...)
\* generator = NetplanGenerator(args.renderer)
Validate ==
    /\ pc = "validate"
    /\ IF ~(Truthy(args.ethernet) \/ Truthy(args.bond) \/ Truthy(args.bridge))
       THEN /\ ParserError("At least one interface type must be specified")
            /\ UNCHANGED <<config, prev, lastOp>>
       ELSE /\ config' = NewGenerator(args.renderer)
            /\ prev' = config'
            /\ lastOp' = Call("__init__", <<>>, <<>>, [renderer |-> Some(args.renderer)])
            /\ pc' = "ethernet"
            /\ UNCHANGED <<stderr, status>>
    /\ UNCHANGED <<ret, nOps, argv, args, yaml_output, stdout, file, input>>

\* the ethernet block made to add nothing
ProcessEthernet_skipped ==
    /\ pc = "ethernet"
    /\ pc' = "bond"
    /\ UNCHANGED <<libVars, argv, args, yaml_output, stdout, stderr, status,
                   file, input>>

\* if args.ethernet: ... generator.add_ethernet(...)
ProcessEthernet ==
    /\ pc = "ethernet"
    /\ IF Truthy(args.ethernet)
       THEN /\ config' = add_ethernet(config, args.ethernet[1], EthernetCallKw(args))
            /\ prev' = config
            /\ lastOp' = Call("add_ethernet", args.ethernet[1], <<>>, EthernetCallKw(args))
            /\ nOps' = nOps + 1
       ELSE UNCHANGED <<config, prev, lastOp, nOps>>
    /\ pc' = "bond"
    /\ UNCHANGED <<ret, argv, args, yaml_output, stdout, stderr, status, file, input>>

\* if args.bond: ... generator.add_bond(...)
ProcessBond ==
    /\ pc = "bond"
    /\ IF Truthy(args.bond) /\ ~Truthy(args.bond_interfaces)
       THEN /\ ParserError("--bond-interfaces is required when using --bond")
            /\ UNCHANGED <<config, prev, lastOp, nOps>>
       ELSE /\ IF Truthy(args.bond)
               THEN /\ config' = add_bond(config, args.bond[1],
                                          parse_list(args.bond_interfaces[1]),
                                          BondCallKw(args))
                    /\ prev' = config
                    /\ lastOp' = Call("add_bond", args.bond[1],
                                      parse_list(args.bond_interfaces[1]),
                                      BondCallKw(args))
                    /\ nOps' = nOps + 1
               ELSE UNCHANGED <<config, prev, lastOp, nOps>>
            /\ pc' = "bridge"
            /\ UNCHANGED <<stderr, status>>
    /\ UNCHANGED <<ret, argv, args, yaml_output, stdout, file, input>>

\* if args.bridge: ... generator.add_bridge(...)
ProcessBridge ==
    /\ pc = "bridge"
    /\ IF Truthy(args.bridge) /\ ~Truthy(args.bridge_interfaces)
       THEN /\ ParserError("--bridge-interfaces is required when using --bridge")
            /\ UNCHANGED <<config, prev, lastOp, nOps>>
       ELSE /\ IF Truthy(args.bridge)
               THEN /\ config' = add_bridge(config, args.bridge[1],
                                            parse_list(args.bridge_interfaces[1]),
                                            BridgeCallKw(args))
                    /\ prev' = config
                    /\ lastOp' = Call("add_bridge", args.bridge[1],
                                      parse_list(args.bridge_interfaces[1]),
                                      BridgeCallKw(args))
                    /\ nOps' = nOps + 1
               ELSE UNCHANGED <<config, prev, lastOp, nOps>>
            /\ pc' = "to_yaml"
            /\ UNCHANGED <<stderr, status>>
    /\ UNCHANGED <<ret, argv, args, yaml_output, stdout, file, input>>

\* yaml_output = generator.to_yaml()
Render ==
    /\ pc = "to_yaml"
    /\ yaml_output' = Some(to_yaml(config))
    /\ pc' = "output"
    /\ UNCHANGED <<libVars, argv, args, stdout, stderr, status, file, input>>

\* the output step made to print the text when the file cannot be written
Output_printing_on_failure ==
    /\ pc = "output"
    /\ IF Truthy(args.output)
       THEN \E written \in BOOLEAN :
               IF written
               THEN /\ file' = yaml_output
                    /\ stdout' = Append(stdout, <<"written-to", args.output[1]>>)
                    /\ status' = Some(0)
                    /\ UNCHANGED stderr
               ELSE /\ stderr' = Append(stderr, <<"error-writing", args.output[1]>>)
                    /\ stdout' = Append(stdout, <<"yaml", yaml_output[1]>>)
                    /\ status' = Some(1)
                    /\ UNCHANGED file
       ELSE /\ stdout' = Append(stdout, <<"yaml", yaml_output[1]>>)
            /\ status' = Some(0)
            /\ UNCHANGED <<file, stderr>>
    /\ pc' = "exit"
    /\ UNCHANGED <<libVars, argv, args, yaml_output, input>>

\* if args.output: write the file, print the confirmation (IOError: report
\* it and sys.exit(1)); else: print(yaml_output)
Output ==
    /\ pc = "output"
    /\ IF Truthy(args.output)
       THEN \E written \in BOOLEAN :
               IF written
               THEN /\ file' = yaml_output
                    /\ stdout' = Append(stdout, <<"written-to", args.output[1]>>)
                    /\ status' = Some(0)
                    /\ UNCHANGED stderr
               ELSE /\ stderr' = Append(stderr, <<"error-writing", args.output[1]>>)
                    /\ status' = Some(1)
                    /\ UNCHANGED <<file, stdout>>
       ELSE /\ stdout' = Append(stdout, <<"yaml", yaml_output[1]>>)
            /\ status' = Some(0)
            /\ UNCHANGED <<file, stderr>>
    /\ pc' = "exit"
    /\ UNCHANGED <<libVars, argv, args, yaml_output, input>>

NextCli ==
    \/ ParseArgs \/ Validate \/ ProcessEthernet \/ ProcessBond
    \/ ProcessBridge \/ Render \/ Output

SpecCli == InitCli /\ [][NextCli]_vars

\* the YAML text a finished run has put out: the --output file when it was
\* written, else what was printed
Emitted ==
    IF file # None THEN file
    ELSE IF \E i \in 1..Len(stdout) : stdout[i][1] = "yaml"
    THEN Some(stdout[CHOOSE i \in 1..Len(stdout) : stdout[i][1] = "yaml"][2])
    ELSE None

\* C8: when the command line selects the NetworkManager-minimal mode
\* (--use-nm), whatever other flags come with it, the run succeeds and its
\* output has `renderer: NetworkManager`, no `ethernets`, `bonds` or
\* `bridges` key and none of the interface names or addresses supplied.
C8_UseNmExclusive ==
    (pc = "exit" /\ argv.use_nm # None) =>
        /\ status = Some(0)
        /\ Emitted # None
        /\ HasLine(Emitted[1], "renderer", NetworkManager)
        /\ \A k \in {"ethernets", "bonds", "bridges"} : ~HasKey(Emitted[1], k)
        /\ \A n \in {eth0, bond0, br0} : ~HasName(Emitted[1], n)
        /\ \A i \in 1..Len(Emitted[1]) :
               Emitted[1][i][2] = "item" => Emitted[1][i][4] # Some(addr1)

\* C11: a run that ends in a usage error (no primary interface flag, --bond
\* without --bond-interfaces, --bridge without --bridge-interfaces, alone or
\* next to other primary flags) has applied no add operation before the error
\* is reported: the document is as it was when it was created.
C11_UsageErrorBeforeConstruction ==
    (pc = "exit" /\ status = Some(2)) =>
        /\ nOps = 0
        /\ (config = <<>> \/ config = NewGenerator(args.renderer))

\* the command line lacks what main() requires: no primary interface flag, or
\* --bond / --bridge with its interfaces list absent or empty
UsageError(cmd) ==
    \/ ~(Truthy(cmd.ethernet) \/ Truthy(cmd.bond) \/ Truthy(cmd.bridge))
    \/ (Truthy(cmd.bond) /\ ~Truthy(cmd.bond_interfaces))
    \/ (Truthy(cmd.bridge) /\ ~Truthy(cmd.bridge_interfaces))

\* C12: every usage error (no primary interface flag; --bond with
\* --bond-interfaces absent or empty; --bridge with --bridge-interfaces absent
\* or empty) ends the run with a non-zero exit status, and the run puts no
\* YAML on standard output or in the --output file.
C12_UsageErrorExitsNonZero ==
    (pc = "exit" /\ UsageError(argv)) =>
        /\ status # None
        /\ status # Some(0)
        /\ file = None
        /\ \A i \in 1..Len(stdout) : stdout[i][1] # "yaml"

\* --ethernet eth0 --bond bond0 --bond-interfaces "" --output out.yaml was
\* rejected after the ethernet was added
C12_Witness ==
    /\ pc = "exit"
    /\ argv.use_nm = None
    /\ argv.ethernet = Some(eth0)
    /\ argv.bond = Some(bond0)
    /\ argv.bond_interfaces = Some(<<>>)
    /\ argv.output = Some(out_yaml)
    /\ stderr = <<<<"usage", "--bond-interfaces is required when using --bond">>>>
    /\ status = Some(2)
    /\ stdout = <<>>

PrimaryFlags == {"ethernet", "bond", "bridge"}

\* the section a primary flag writes to
SectionOf(flag) ==
    IF flag = "ethernet" THEN "ethernets"
    ELSE IF flag = "bond" THEN "bonds" ELSE "bridges"

C14_OutputDestination ==
    (pc = "exit" /\ yaml_output # None) =>
        IF Truthy(argv.output)
        THEN \/ /\ file = yaml_output
                /\ stdout = <<<<"written-to", argv.output[1]>>>>
                /\ stderr = <<>>
                /\ status = Some(0)
             \/ /\ file = None
                /\ stderr = <<<<"error-writing", argv.output[1]>>>>
                /\ stdout = <<>>
                /\ status = Some(1)
        ELSE /\ stdout = <<<<"yaml", yaml_output[1]>>>>
             /\ stderr = <<>>
             /\ file = None
             /\ status = Some(0)

\* --bond bond0 --bond-interfaces eth0,eth1 --output out.yaml could not write
\* out.yaml
C14_Witness ==
    /\ pc = "exit"
    /\ argv.bond = Some(bond0)
    /\ argv.output = Some(out_yaml)
    /\ yaml_output # None
    /\ HasName(yaml_output[1], bond0)
    /\ status = Some(1)
    /\ stdout = <<>>

---------------------------------------------------------------------------
(* One add_* call with any combination of its options, then to_yaml, on a  *)
(* new generator.                                                          *)

gw6 == <<"f", "e", "8", "0", ":", ":", "1">>

\* the keyword arguments of the call: each option given or left out
RecordKw ==
    [mode : {<<>>, <<mode_8023ad>>},
     dhcp4 : {<<>>, <<FALSE>>},
     dhcp6 : {<<>>, <<TRUE>>},
     addresses : {<<>>, <<Some(<<addr1>>)>>},
     gateway4 : {<<>>, <<Some(gw1)>>},
     gateway6 : {<<>>, <<Some(gw6)>>},
     nameservers : {<<>>, <<Some(<<ns1>>)>>},
     dhcp4_overrides : {<<>>, <<Some(use_dns_false)>>},
     dhcp6_overrides : {<<>>, <<Some(use_dns_false)>>}]

\* the keyword arguments among kw that the method declares
Declared(defaults, kw) ==
    [p \in (DOMAIN kw) \cap (DOMAIN defaults) |-> kw[p]]

InitRecord ==
    /\ input \in { Some(kw) : kw \in RecordKw }
    /\ config = NewGenerator(networkd)
    /\ prev = config
    /\ lastOp = Call("__init__", <<>>, <<>>, [renderer |-> <<>>])
    /\ ret = RetNone
    /\ nOps = 0
    /\ pc = "record"
    /\ argv = <<>>
    /\ args = <<>>
    /\ yaml_output = None
    /\ stdout = <<>>
    /\ stderr = <<>>
    /\ status = None
    /\ file = None

\* generator.add_ethernet("eth0", **kw)
RecordEthernet ==
    /\ pc = "record"
    /\ LET kw == Declared(EthernetDefaults, input[1])
       IN  /\ config' = add_ethernet(config, eth0, kw)
           /\ lastOp' = Call("add_ethernet", eth0, <<>>, kw)
    /\ prev' = config
    /\ ret' = RetNone
    /\ nOps' = nOps + 1
    /\ pc' = "added"
    /\ UNCHANGED <<argv, args, yaml_output, stdout, stderr, status, file, input>>

\* generator.add_bond("bond0", ["eth0", "eth1"], **kw)
RecordBond ==
    /\ pc = "record"
    /\ LET kw == Declared(BondDefaults, input[1])
       IN  /\ config' = add_bond(config, bond0, <<eth0, eth1>>, kw)
           /\ lastOp' = Call("add_bond", bond0, <<eth0, eth1>>, kw)
    /\ prev' = config
    /\ ret' = RetNone
    /\ nOps' = nOps + 1
    /\ pc' = "added"
    /\ UNCHANGED <<argv, args, yaml_output, stdout, stderr, status, file, input>>

\* generator.add_bridge("br0", ["eth0", "eth1"], **kw)
RecordBridge ==
    /\ pc = "record"
    /\ LET kw == Declared(BridgeDefaults, input[1])
       IN  /\ config' = add_bridge(config, br0, <<eth0, eth1>>, kw)
           /\ lastOp' = Call("add_bridge", br0, <<eth0, eth1>>, kw)
    /\ prev' = config
    /\ ret' = RetNone
    /\ nOps' = nOps + 1
    /\ pc' = "added"
    /\ UNCHANGED <<argv, args, yaml_output, stdout, stderr, status, file, input>>

\* generator.to_yaml()
RecordToYaml ==
    /\ pc = "added"
    /\ lastOp' = Call("to_yaml", <<>>, <<>>, [renderer |-> <<>>])
    /\ ret' = RetStr(to_yaml(config))
    /\ prev' = config
    /\ pc' = "rendered"
    /\ UNCHANGED <<config, nOps, argv, args, yaml_output, stdout, stderr,
                   status, file, input>>

NextRecord == RecordEthernet \/ RecordBond \/ RecordBridge \/ RecordToYaml

SpecRecord == InitRecord /\ [][NextRecord]_vars

FieldOrder ==
    <<"interfaces", "parameters", "dhcp4", "dhcp6", "addresses", "gateway4",
      "gateway6", "nameservers", "dhcp4-overrides", "dhcp6-overrides">>

\* C18: in every interface record the keys present are in the order dhcp4,
\* dhcp6, addresses, gateway4, gateway6, nameservers, dhcp4-overrides,
\* dhcp6-overrides, with `interfaces` and (bond) `parameters` before them in
\* bond and bridge records, for every combination of options; the rendered
\* record has its keys in that order too.
C18_RecordKeyOrder ==
    /\ \A sec \in {"ethernets", "bonds", "bridges"} :
           \A i \in 1..Len(Section(config, sec)) :
               InOrder(DictKeys(Section(config, sec)[i][2]), FieldOrder)
    /\ pc = "rendered" => InOrder(KeysAt(ret[2], 6), FieldOrder)

\* add_ethernet with every option given and dhcp4 left at its default wrote
\* and rendered a record with all eight keys
C18_Witness ==
    /\ pc = "rendered"
    /\ DictHas(Section(config, "ethernets"), eth0)
    /\ DictKeys(DictGet(Section(config, "ethernets"), eth0))
           = SubSeq(FieldOrder, 3, 10)
    /\ KeysAt(ret[2], 6) = SubSeq(FieldOrder, 3, 10)

---------------------------------------------------------------------------
(* add_* calls on one generator, with two names for each kind of          *)
(* interface; input keeps the renderer argument of the constructor.        *)

MaxFrameOps == 3

bond1 == <<"b", "o", "n", "d", "1">>
br1 == <<"b", "r", "1">>

FrameEthernetKw ==
    [dhcp4 : {<<>>, <<FALSE>>}, addresses : {<<>>, <<Some(<<addr1>>)>>}]
FrameBondKw == [mode : {<<>>, <<mode_8023ad>>}]
FrameBridgeKw == [dhcp4 : {<<>>, <<FALSE>>}]

InitFrame ==
    /\ input \in {Some(r) : r \in {<<>>, <<NetworkManager>>}}
    /\ config = NewGenerator(Arg(input[1], networkd))
    /\ prev = config
    /\ lastOp = Call("__init__", <<>>, <<>>, [renderer |-> input[1]])
    /\ ret = RetNone
    /\ nOps = 0
    /\ pc = "frame"
    /\ argv = <<>>
    /\ args = <<>>
    /\ yaml_output = None
    /\ stdout = <<>>
    /\ stderr = <<>>
    /\ status = None
    /\ file = None

\* generator.add_ethernet(name, **kw)
FrameEthernet ==
    /\ pc = "frame"
    /\ nOps < MaxFrameOps
    /\ \E name \in {eth0, eth1}, kw \in FrameEthernetKw :
        /\ config' = add_ethernet(config, name, kw)
        /\ lastOp' = Call("add_ethernet", name, <<>>, kw)
    /\ prev' = config
    /\ ret' = RetNone
    /\ nOps' = nOps + 1
    /\ UNCHANGED <<cliVars, input>>

\* generator.add_bond(name, interfaces, **kw)
FrameBond ==
    /\ pc = "frame"
    /\ nOps < MaxFrameOps
    /\ \E name \in {bond0, bond1}, interfaces \in {<<eth0>>, <<eth0, eth1>>},
          kw \in FrameBondKw :
        /\ config' = add_bond(config, name, interfaces, kw)
        /\ lastOp' = Call("add_bond", name, interfaces, kw)
    /\ prev' = config
    /\ ret' = RetNone
    /\ nOps' = nOps + 1
    /\ UNCHANGED <<cliVars, input>>

\* generator.add_bridge(name, interfaces, **kw)
FrameBridge ==
    /\ pc = "frame"
    /\ nOps < MaxFrameOps
    /\ \E name \in {br0, br1}, interfaces \in {<<eth0>>, <<eth1>>},
          kw \in FrameBridgeKw :
        /\ config' = add_bridge(config, name, interfaces, kw)
        /\ lastOp' = Call("add_bridge", name, interfaces, kw)
    /\ prev' = config
    /\ ret' = RetNone
    /\ nOps' = nOps + 1
    /\ UNCHANGED <<cliVars, input>>

NextFrame == FrameEthernet \/ FrameBond \/ FrameBridge

SpecFrame == InitFrame /\ [][NextFrame]_vars

\* the section is in cfg as it is in cfg0: there or not, and with the same records
SameSection(cfg, cfg0, sec) ==
    /\ DictHas(Network(cfg), sec) <=> DictHas(Network(cfg0), sec)
    /\ Section(cfg, sec) = Section(cfg0, sec)

\* every record of the section of cfg0, but the one of name, is in cfg as it was
SameOtherRecords(cfg, cfg0, sec, name) ==
    /\ \A i \in 1..Len(Section(cfg0, sec)) :
           LET n == Section(cfg0, sec)[i][1]
           IN  n # name =>
                   /\ DictHas(Section(cfg, sec), n)
                   /\ DictGet(Section(cfg, sec), n) = Section(cfg0, sec)[i][2]
    /\ \A i \in 1..Len(Section(cfg, sec)) :
           LET n == Section(cfg, sec)[i][1]
           IN  n # name => DictHas(Section(cfg0, sec), n)

\* C21: version is 2 and renderer is the value given at construction in
\* every state; add_ethernet changes nothing but the ethernets record of its
\* name; add_bond changes nothing in bridges and no bond record of another
\* name; add_bridge changes nothing in bonds and no bridge record of another
\* name.
C21_AddFrame ==
    /\ DictGet(Network(config), "version") = 2
    /\ DictGet(Network(config), "renderer") = Arg(input[1], networkd)
    /\ lastOp.op = "add_ethernet" =>
           /\ SameSection(config, prev, "bonds")
           /\ SameSection(config, prev, "bridges")
           /\ SameOtherRecords(config, prev, "ethernets", lastOp.name)
    /\ lastOp.op = "add_bond" =>
           /\ SameSection(config, prev, "bridges")
           /\ SameOtherRecords(config, prev, "bonds", lastOp.name)
    /\ lastOp.op = "add_bridge" =>
           /\ SameSection(config, prev, "bonds")
           /\ SameOtherRecords(config, prev, "bridges", lastOp.name)

\* add_bond("bond1", ...) on a generator built with NetworkManager that held
\* bond0 and the bridge br0
C21_Witness ==
    /\ lastOp.op = "add_bond"
    /\ lastOp.name = bond1
    /\ input = Some(<<NetworkManager>>)
    /\ DictHas(Section(prev, "bonds"), bond0)
    /\ DictHas(Section(prev, "bridges"), br0)
    /\ DictKeys(Section(config, "bonds")) = <<bond0, bond1>>
    /\ DictGet(Section(config, "bonds"), bond0) = DictGet(Section(prev, "bonds"), bond0)

\* C22: every bond or bridge record of a successful command-line run has an
\* `interfaces` list with at least one element, and every element is a
\* non-empty name, whatever value of --bond-interfaces / --bridge-interfaces
\* passed the required-flag check ("," and " " among them).
C22_InterfaceNamesNonEmpty ==
    (pc = "exit" /\ status = Some(0)) =>
        \A sec \in {"bonds", "bridges"} :
            \A i \in 1..Len(Section(config, sec)) :
                LET interfaces == DictGet(Section(config, sec)[i][2], "interfaces")
                IN  /\ interfaces # <<>>
                    /\ \A j \in 1..Len(interfaces) : interfaces[j] # <<>>

====
